---- MODULE Spec2Model ----
(***************************************************************************)
(* Model of app.py (Image Caption Generator): one script that loads two    *)
(* pretrained models at module level, renders a Streamlit page with an     *)
(* upload control and a GENERATE CAPTION button, and defines a Flask app   *)
(* with one route, POST /caption.                                          *)
(*                                                                         *)
(* The script is run in one of three ways:                                 *)
(*   "streamlit"  streamlit run app.py: the whole script is executed from  *)
(*                line 1 on every interaction of the session (a rerun);    *)
(*   "flask"      python app.py: the script is executed once, the          *)
(*                Streamlit calls are inert (file_uploader returns None),  *)
(*                and app.run serves POST /caption;                        *)
(*   "import"     import app: the script is executed once and its          *)
(*                functions are called directly with chosen arguments.     *)
(***************************************************************************)
EXTENDS Integers, Sequences, FiniteSets, TLC

\* ------------------------------------------------------------------ bounds
NumContents == 2      \* distinct valid pictures
MaxLoads == 4         \* script runs (model loads) per process
ArgMaxLength == 2     \* max_length arguments 1..ArgMaxLength besides the default
ArgNumBeams == 2      \* num_beams arguments 1..ArgNumBeams besides the default
NumTok == 3           \* vocabulary of ordinary tokens 1..NumTok

\* ------------------------------------------------------- program constants
DefaultMaxLength == 50
DefaultNumBeams == 5

\* ------------------------------------------------------------------- data
BindingNames ==
  <<"convnext_processor", "convnext_model", "blip_processor", "blip_model">>

Contents == 1..NumContents

\* An uploaded file: a valid picture, a file whose header is an image header
\* but whose body is cut short (small or wide), or bytes that are no image.
Images ==
  [kind : {"valid"}, content : Contents]
    \cup [kind : {"truncated", "truncated_wide", "nonimage"}, content : {1}]

NoImage == [kind |-> "none", content |-> 0]

Positions == {"start", "header", "end"}

\* A file-like object: the bytes and the read position.
NoStream == [img |-> NoImage, pos |-> "start"]

FreshStream(img) == [img |-> img, pos |-> "start"]

EOS == 0

NoResult ==
  [tag |-> "none", at |-> "none", ids |-> <<>>, text |-> <<>>, steps |-> 0]

\* The page below the button: the result region (a caption, an inline error,
\* or the exception that ended the run) and what the end of the run added.
NoDisplay ==
  [kind |-> "none", text |-> <<>>, cause |-> "none", trailer |-> "none"]

NoResponse ==
  [status |-> 0, caption |-> <<>>, cause |-> "none", handledBy |-> "none"]

NoRequest == [field |-> "none", img |-> NoImage]

NoCall == [stream |-> NoStream, max_length |-> 0, num_beams |-> 0]

NoMemory ==
  [entry |-> "none", img |-> NoImage, max_length |-> 0, num_beams |-> 0,
   result |-> NoResult]

Unbound ==
  [b \in {BindingNames[i] : i \in 1..Len(BindingNames)} \cup {"device"}
     |-> "unset"]

VARIABLES
  mode,            \* how the script was started
  cuda_available,  \* torch.cuda.is_available() on this machine
  pc,              \* position of the script / the server
  bindings,        \* the module globals of lines 12-18
  loads,           \* times lines 12-20 ran to completion in this process
  widgetFile,      \* the file held by the session's upload widget
  uploaded_image,  \* the script variable of line 81 (a stream)
  rendered,        \* widgets rendered by the current script run
  clicked,         \* st.button's value in the current script run
  features,        \* the handler's variable of line 117
  exc,             \* the exception in flight
  display,         \* the result region of the page
  request,         \* the HTTP request being handled
  response,        \* the last HTTP response
  phase,           \* lifecycle of the current generate_caption call
  call,            \* arguments of the current generate_caption call
  result,          \* outcome of the last generate_caption call
  sessionErrors,   \* an inline error was rendered earlier in this process
  remembered       \* one earlier outcome of generate_caption, kept for comparison

vars ==
  <<mode, cuda_available, pc, bindings, loads, widgetFile, uploaded_image,
    rendered, clicked, features, exc, display, request, response, phase,
    call, result, sessionErrors, remembered>>

\* ------------------------------------------------- PIL: Image.open, convert
\* The bytes at the read position begin with the header of a picture.
HeaderOk(s) ==
  s.pos = "start" /\ s.img.kind \in {"valid", "truncated", "truncated_wide"}

ImageOpen_NoSeek(s) ==
  [ok |-> HeaderOk(s),
   stream |-> [s EXCEPT !.pos = IF s.pos = "end" THEN "end" ELSE "header"]]

\* Image.open rewinds the file object (fp.seek(0)) and reads the header.
ImageOpen(s) ==
  LET r == [s EXCEPT !.pos = "start"]
  IN  [ok |-> HeaderOk(r), stream |-> [r EXCEPT !.pos = "header"]]

\* .convert("RGB") loads the pixel data: it reads the rest of the file.
ConvertRGB(s) ==
  IF s.img.kind = "valid"
    THEN [ok |-> TRUE, stream |-> [s EXCEPT !.pos = "end"]]
    ELSE [ok |-> FALSE, stream |-> s]

\* Image.open(image).convert("RGB")
OpenRGB(s) ==
  LET o == ImageOpen(s)
  IN  IF o.ok THEN ConvertRGB(o.stream) ELSE o

\* st.image decodes the header of the upload, and the whole picture when it
\* has to be scaled down to the column width.
StImageOk(s) ==
  /\ ImageOpen(s).ok
  /\ s.img.kind # "truncated_wide"

\* ----------------------------------------- blip_model.generate: beam search
\* The pretrained weights, as a fixed table: the step at which beam b emits
\* the end token for picture c (0: never), and the ordinary token otherwise.
EosStep(c, b) == IF c = 1 THEN 0 ELSE c + ((2 * b) % 3)

NextToken_Stateful(c, b, p) ==
  IF EosStep(c, b) = p THEN EOS ELSE ((c + b + p + loads) % NumTok) + 1

NextToken(c, b, p) ==
  IF EosStep(c, b) = p THEN EOS ELSE ((c + b + p) % NumTok) + 1

Finished(s) == Len(s) > 0 /\ s[Len(s)] = EOS

MaxNewTokens_OffByOne(max_length) == max_length + 1

\* max_new_tokens=max_length
MaxNewTokens(max_length) == max_length

RECURSIVE BeamSearch(_, _, _, _)
BeamSearch(c, beams, step, maxNew) ==
  IF step >= maxNew \/ \A b \in DOMAIN beams : Finished(beams[b])
    THEN [beams |-> beams, steps |-> step]
    ELSE BeamSearch(
           c,
           [b \in DOMAIN beams |->
              IF Finished(beams[b]) THEN beams[b]
              ELSE Append(beams[b], NextToken(c, b, step + 1))],
           step + 1, maxNew)

\* The returned hypothesis: the shortest finished beam (the lowest index among
\* equals), else the first beam.
Winner(beams) ==
  LET fin == {b \in DOMAIN beams : Finished(beams[b])}
  IN  IF fin = {} THEN beams[1]
      ELSE beams[CHOOSE b \in fin :
                   \A o \in fin :
                     \/ Len(beams[b]) < Len(beams[o])
                     \/ Len(beams[b]) = Len(beams[o]) /\ b <= o]

IsOrdinary(t) == t # EOS

\* blip_processor.batch_decode(caption_ids, skip_special_tokens=True)[0]
BatchDecode(ids) == SelectSeq(ids, IsOrdinary)

\* caption.upper(): the upper-case letters are the codes NumTok+1..2*NumTok
Upper(text) == [i \in 1..Len(text) |-> text[i] + NumTok]

Generate(c, max_length, num_beams) ==
  LET r == BeamSearch(c, [b \in 1..num_beams |-> <<>>], 0,
                      MaxNewTokens(max_length))
      ids == Winner(r.beams)
  IN  [tag |-> "caption", at |-> "Generating", ids |-> ids,
       text |-> BatchDecode(ids), steps |-> r.steps]

\* The call raised the exception tag in the phase at.
Failure(tag, at) == [NoResult EXCEPT !.tag = tag, !.at = at]

\* ------------------------------------------------------------ process start
ProcessStart(m) ==
  /\ mode' = m
  /\ pc' = "load"
  /\ bindings' = Unbound
  /\ loads' = 0
  /\ widgetFile' = NoImage
  /\ uploaded_image' = NoStream
  /\ rendered' = {}
  /\ clicked' = FALSE
  /\ features' = "unset"
  /\ exc' = "none"
  /\ display' = NoDisplay
  /\ request' = NoRequest
  /\ response' = NoResponse
  /\ phase' = "Idle"
  /\ call' = NoCall
  /\ result' = NoResult
  /\ sessionErrors' = FALSE

InitIn(modes) ==
  /\ mode \in modes
  /\ cuda_available \in BOOLEAN
  /\ pc = "load"
  /\ bindings = Unbound
  /\ loads = 0
  /\ widgetFile = NoImage
  /\ uploaded_image = NoStream
  /\ rendered = {}
  /\ clicked = FALSE
  /\ features = "unset"
  /\ exc = "none"
  /\ display = NoDisplay
  /\ request = NoRequest
  /\ response = NoResponse
  /\ phase = "Idle"
  /\ call = NoCall
  /\ result = NoResult
  /\ sessionErrors = FALSE
  /\ remembered = NoMemory

\* ----------------------------------------------------- lines 12-20: loading
\* The first n of the four from_pretrained calls succeed.
LoadedPrefix(n) ==
  [b \in DOMAIN Unbound |->
     IF b = "device"
       THEN IF n = Len(BindingNames)
              THEN (IF cuda_available THEN "cuda" ELSE "cpu")
              ELSE "unset"
       ELSE IF \E i \in 1..n : BindingNames[i] = b THEN "loaded" ELSE "unset"]

AllLoaded ==
  /\ \A i \in 1..Len(BindingNames) : bindings[BindingNames[i]] = "loaded"
  /\ bindings["device"] \in {"cpu", "cuda"}

AfterLoad_Continue(n) == "uploader"

\* Where control goes when the loading statements have run: on to line 81, or
\* out of the script with the exception of the failed from_pretrained call.
AfterLoad(n) ==
  IF n = Len(BindingNames) THEN "uploader"
  ELSE IF mode = "streamlit" THEN "aborted" ELSE "exited"

LoadModels ==
  /\ pc = "load"
  /\ \E n \in 0..Len(BindingNames) :
       /\ bindings' = LoadedPrefix(n)
       /\ pc' = AfterLoad(n)
       /\ loads' = IF n = Len(BindingNames) THEN loads + 1 ELSE loads
       /\ display' =
            IF n = Len(BindingNames) THEN display
            ELSE [kind |-> "exception", text |-> <<>>,
                  cause |-> "ModelLoadError", trailer |-> "none"]
  /\ UNCHANGED <<mode, cuda_available, widgetFile, uploaded_image, rendered,
                 clicked, features, exc, request, response, phase, call,
                 result, sessionErrors, remembered>>

\* ------------------------------------------- lines 81, 110-114: the page
\* st.file_uploader: the session's file as a fresh file object, or None.
FileUploader ==
  /\ pc = "uploader"
  /\ uploaded_image' =
       IF mode = "streamlit" /\ widgetFile # NoImage
         THEN FreshStream(widgetFile) ELSE NoStream
  /\ rendered' = IF mode = "streamlit" THEN rendered \cup {"uploader"}
                 ELSE rendered
  /\ pc' = IF uploaded_image' # NoStream THEN "preview" ELSE "apprun"
  /\ UNCHANGED <<mode, cuda_available, bindings, loads, widgetFile, clicked,
                 features, exc, display, request, response, phase, call,
                 result, sessionErrors, remembered>>

\* st.image(uploaded_image, ...) of line 111, outside the try block.
Preview ==
  /\ pc = "preview"
  /\ IF StImageOk(uploaded_image)
       THEN /\ pc' = "button"
            /\ \E p \in Positions :
                 uploaded_image' = [uploaded_image EXCEPT !.pos = p]
            /\ display' = display
       ELSE /\ pc' = "aborted"
            /\ uploaded_image' = uploaded_image
            /\ display' = [kind |-> "exception", text |-> <<>>,
                           cause |-> "DecodeError", trailer |-> "none"]
  /\ UNCHANGED <<mode, cuda_available, bindings, loads, widgetFile, rendered,
                 clicked, features, exc, request, response, phase, call,
                 result, sessionErrors, remembered>>

\* if st.button("GENERATE CAPTION", ...)
Button ==
  /\ pc = "button"
  /\ rendered' = rendered \cup {"button"}
  /\ pc' = IF clicked THEN "extract" ELSE "apprun"
  /\ UNCHANGED <<mode, cuda_available, bindings, loads, widgetFile,
                 uploaded_image, clicked, features, exc, display, request,
                 response, phase, call, result, sessionErrors, remembered>>

\* ------------------------------------------ lines 115-129: the click handler
TryNext_Swallow(ok, next) == next

\* Control inside the try block: on to the next statement, or to the except
\* clause when the statement raised.
TryNext(ok, next) == IF ok THEN next ELSE "except"

\* extract_features(uploaded_image): preprocess_image, then the forward pass.
ExtractFeatures ==
  /\ pc = "extract"
  /\ \E inferenceOk \in BOOLEAN :
       LET d == OpenRGB(uploaded_image)
           ok == d.ok /\ inferenceOk
       IN  /\ uploaded_image' = d.stream
           /\ features' = IF ok THEN "logits" ELSE "raised"
           /\ exc' = IF ~d.ok THEN "DecodeError"
                     ELSE IF ~inferenceOk THEN "InferenceError" ELSE "none"
           /\ pc' = TryNext(ok, "generate")
  /\ UNCHANGED <<mode, cuda_available, bindings, loads, widgetFile, rendered,
                 clicked, display, request, response, phase, call, result,
                 sessionErrors, remembered>>

\* caption = generate_caption(uploaded_image): the call
CallGenerate ==
  /\ pc = "generate"
  /\ call' = [stream |-> uploaded_image, max_length |-> DefaultMaxLength,
              num_beams |-> DefaultNumBeams]
  /\ phase' = "Preprocessing"
  /\ result' = NoResult
  /\ pc' = "in_generate"
  /\ UNCHANGED <<mode, cuda_available, bindings, loads, widgetFile,
                 uploaded_image, rendered, clicked, features, exc, display,
                 request, response, sessionErrors, remembered>>

\* One earlier outcome (a caption or a decode failure) is kept to compare the
\* later ones with.
Remember(entry) ==
  IF remembered = NoMemory /\ result.tag \in {"caption", "DecodeError"}
    THEN remembered' \in
           {NoMemory,
            [entry |-> entry, img |-> call.stream.img,
             max_length |-> call.max_length, num_beams |-> call.num_beams,
             result |-> result]}
    ELSE remembered' = remembered

\* generate_caption returns to the handler, or raises into it.
UiReturn ==
  /\ pc = "in_generate"
  /\ phase \in {"Done", "Failed"}
  /\ phase' = "Idle"
  /\ exc' = IF phase = "Failed" THEN result.tag ELSE "none"
  /\ pc' = TryNext(phase = "Done", "show")
  /\ Remember("ui")
  /\ UNCHANGED <<mode, cuda_available, bindings, loads, widgetFile,
                 uploaded_image, rendered, clicked, features, display,
                 request, response, call, result, sessionErrors>>

\* formatted_caption = caption.upper(); st.markdown(<h2>...</h2>)
ShowCaption ==
  /\ pc = "show"
  /\ display' = [kind |-> "caption", text |-> Upper(result.text),
                 cause |-> "none", trailer |-> "none"]
  /\ pc' = "apprun"
  /\ UNCHANGED <<mode, cuda_available, bindings, loads, widgetFile,
                 uploaded_image, rendered, clicked, features, exc, request,
                 response, phase, call, result, sessionErrors, remembered>>

ExceptClause_Reraise(e) ==
  [pc |-> "aborted",
   display |-> [kind |-> "exception", text |-> <<>>, cause |-> e,
                trailer |-> "none"]]

\* except Exception as e: st.error(...)
ExceptClause(e) ==
  [pc |-> "apprun",
   display |-> [kind |-> "error", text |-> <<>>, cause |-> e,
                trailer |-> "none"]]

HandleException ==
  /\ pc = "except"
  /\ pc' = ExceptClause(exc).pc
  /\ display' = ExceptClause(exc).display
  /\ exc' = "none"
  /\ sessionErrors' = TRUE
  /\ UNCHANGED <<mode, cuda_available, bindings, loads, widgetFile,
                 uploaded_image, rendered, clicked, features, request,
                 response, phase, call, result, remembered>>

\* ------------------------------------------- lines 96-107: generate_caption
AfterPreprocess_Always(ok) == "Generating"

\* Where the call goes after lines 97-98.
AfterPreprocess(ok) == IF ok THEN "Generating" ELSE "Failed"

\* Image.open(image).convert("RGB"); blip_processor(...).to(device)
GC_Preprocess ==
  /\ phase = "Preprocessing"
  /\ \E deviceOk \in BOOLEAN :
       LET d == OpenRGB(call.stream)
           ok == d.ok /\ deviceOk
       IN  /\ call' = [call EXCEPT !.stream = d.stream]
           /\ uploaded_image' =
                IF mode = "streamlit" THEN d.stream ELSE uploaded_image
           /\ phase' = AfterPreprocess(ok)
           /\ result' = IF ok THEN result
                        ELSE IF ~d.ok
                          THEN Failure("DecodeError", "Preprocessing")
                        ELSE Failure("InferenceError", "Preprocessing")
  /\ UNCHANGED <<mode, cuda_available, pc, bindings, loads, widgetFile,
                 rendered, clicked, features, exc, display, request,
                 response, sessionErrors, remembered>>

\* blip_model.generate(...); blip_processor.batch_decode(...)[0]
GC_Generate ==
  /\ phase = "Generating"
  /\ \E inferenceOk \in BOOLEAN :
       IF inferenceOk
         THEN /\ result' = Generate(call.stream.img.content, call.max_length,
                                    call.num_beams)
              /\ phase' = "Done"
         ELSE /\ result' = Failure("InferenceError", "Generating")
              /\ phase' = "Failed"
  /\ UNCHANGED <<mode, cuda_available, pc, bindings, loads, widgetFile,
                 uploaded_image, rendered, clicked, features, exc, display,
                 request, response, call, sessionErrors, remembered>>

\* ------------------------------------------------- lines 141-142: the end
\* if __name__ == '__main__': app.run(debug=True).  Started with python, the
\* call serves requests.  Under Streamlit the script is __main__ too, but it
\* runs in a worker thread, where the reloader of debug=True cannot install
\* its signal handler: the call raises, the run ends with that exception shown
\* below what the page has rendered, and the session waits for the next
\* interaction.  An importing module is not __main__.
AppRun ==
  /\ pc = "apprun"
  /\ pc' = CASE mode = "flask" -> "serving"
             [] mode = "streamlit" -> "idle"
             [] OTHER -> "imported"
  /\ display' = IF mode = "streamlit"
                  THEN [display EXCEPT !.trailer = "ValueError"]
                  ELSE display
  /\ UNCHANGED <<mode, cuda_available, bindings, loads, widgetFile,
                 uploaded_image, rendered, clicked, features, exc, request,
                 response, phase, call, result, sessionErrors, remembered>>

\* ------------------------------------------------ Streamlit: script reruns
\* An interaction with the page runs the whole script again, from line 1, in
\* a fresh namespace: the module globals of the last run are gone.
ScriptRerun(click, file) ==
  /\ mode = "streamlit"
  /\ pc \in {"idle", "aborted"}
  /\ loads < MaxLoads
  /\ pc' = "load"
  /\ bindings' = Unbound
  /\ rendered' = {}
  /\ clicked' = click
  /\ widgetFile' = file
  /\ uploaded_image' = NoStream
  /\ features' = "unset"
  /\ exc' = "none"
  /\ display' = NoDisplay
  /\ call' = NoCall
  /\ result' = NoResult
  /\ UNCHANGED <<mode, cuda_available, loads, request, response, phase,
                 sessionErrors, remembered>>

\* The user chooses, replaces or removes the file in the upload control.
Upload ==
  /\ "uploader" \in rendered
  /\ \E img \in Images \cup {NoImage} :
       /\ img # widgetFile
       /\ ScriptRerun(FALSE, img)

\* The user clicks GENERATE CAPTION.
ClickButton ==
  /\ "button" \in rendered
  /\ ScriptRerun(TRUE, widgetFile)

\* The user reruns the page.
Rerun == ScriptRerun(FALSE, widgetFile)

\* ------------------------------------------- lines 135-139: POST /caption
Requests ==
  {[field |-> "missing", img |-> NoImage]}
    \cup {[field |-> "image", img |-> i] : i \in Images}

ReceiveRequest ==
  /\ pc = "serving"
  /\ \E r \in Requests : request' = r
  /\ result' = NoResult
  /\ call' = NoCall
  /\ pc' = "api_files"
  /\ UNCHANGED <<mode, cuda_available, bindings, loads, widgetFile,
                 uploaded_image, rendered, clicked, features, exc, display,
                 response, phase, sessionErrors, remembered>>

\* image = request.files['image']
ApiFiles ==
  /\ pc = "api_files"
  /\ IF request.field = "image"
       THEN pc' = "api_generate" /\ exc' = exc
       ELSE pc' = "api_raise" /\ exc' = "BadRequestKeyError"
  /\ UNCHANGED <<mode, cuda_available, bindings, loads, widgetFile,
                 uploaded_image, rendered, clicked, features, display,
                 request, response, phase, call, result, sessionErrors,
                 remembered>>

\* caption = generate_caption(image): the call
ApiCallGenerate ==
  /\ pc = "api_generate"
  /\ call' = [stream |-> FreshStream(request.img),
              max_length |-> DefaultMaxLength,
              num_beams |-> DefaultNumBeams]
  /\ phase' = "Preprocessing"
  /\ pc' = "api_in_generate"
  /\ UNCHANGED <<mode, cuda_available, bindings, loads, widgetFile,
                 uploaded_image, rendered, clicked, features, exc, display,
                 request, response, result, sessionErrors, remembered>>

\* generate_caption returns to the view function, or raises out of it.
ApiReturn ==
  /\ pc = "api_in_generate"
  /\ phase \in {"Done", "Failed"}
  /\ phase' = "Idle"
  /\ IF phase = "Done"
       THEN pc' = "api_jsonify" /\ exc' = exc
       ELSE pc' = "api_raise" /\ exc' = result.tag
  /\ Remember("api")
  /\ UNCHANGED <<mode, cuda_available, bindings, loads, widgetFile,
                 uploaded_image, rendered, clicked, features, display,
                 request, response, call, result, sessionErrors>>

\* return jsonify({'caption': caption})
ApiJsonify ==
  /\ pc = "api_jsonify"
  /\ response' = [status |-> 200, caption |-> result.text, cause |-> "none",
                  handledBy |-> "route"]
  /\ request' = NoRequest
  /\ pc' = "serving"
  /\ UNCHANGED <<mode, cuda_available, bindings, loads, widgetFile,
                 uploaded_image, rendered, clicked, features, exc, display,
                 phase, call, result, sessionErrors, remembered>>

FlaskDispatch_Crash(e) == [status |-> 0, pc |-> "exited"]

\* The view function has no try block: an exception leaves it and the Flask
\* application answers for it (400 for the missing form key, else 500).
FlaskDispatch(e) ==
  [status |-> IF e = "BadRequestKeyError" THEN 400 ELSE 500,
   pc |-> "serving"]

ApiRaise ==
  /\ pc = "api_raise"
  /\ response' = [status |-> FlaskDispatch(exc).status, caption |-> <<>>,
                  cause |-> exc, handledBy |-> "framework"]
  /\ pc' = FlaskDispatch(exc).pc
  /\ exc' = "none"
  /\ request' = NoRequest
  /\ UNCHANGED <<mode, cuda_available, bindings, loads, widgetFile,
                 uploaded_image, rendered, clicked, features, display, phase,
                 call, result, sessionErrors, remembered>>

\* ----------------------------------------- direct calls of generate_caption
MaxLengths == (1..ArgMaxLength) \cup {DefaultMaxLength}

BeamCounts == (1..ArgNumBeams) \cup {DefaultNumBeams}

DirectCall ==
  /\ pc = "imported"
  /\ \E img \in Images, p \in Positions, ml \in MaxLengths, nb \in BeamCounts :
       call' = [stream |-> [img |-> img, pos |-> p], max_length |-> ml,
                num_beams |-> nb]
  /\ phase' = "Preprocessing"
  /\ result' = NoResult
  /\ pc' = "direct_call"
  /\ UNCHANGED <<mode, cuda_available, bindings, loads, widgetFile,
                 uploaded_image, rendered, clicked, features, exc, display,
                 request, response, sessionErrors, remembered>>

DirectReturn ==
  /\ pc = "direct_call"
  /\ phase \in {"Done", "Failed"}
  /\ phase' = "Idle"
  /\ pc' = "imported"
  /\ Remember("direct")
  /\ UNCHANGED <<mode, cuda_available, bindings, loads, widgetFile,
                 uploaded_image, rendered, clicked, features, exc, display,
                 request, response, call, result, sessionErrors>>

\* ------------------------------------------------------ the process ends
\* The process is stopped and the script is started again.
Restart ==
  /\ pc \in {"idle", "aborted", "serving", "exited", "imported"}
  /\ \E m \in {"streamlit", "flask", "import"} : ProcessStart(m)
  /\ UNCHANGED <<cuda_available, remembered>>

\* -------------------------------------------------------- specification
Init == InitIn({"streamlit", "flask", "import"})

Next ==
  \/ LoadModels
  \/ FileUploader
  \/ Preview
  \/ Button
  \/ ExtractFeatures
  \/ CallGenerate
  \/ UiReturn
  \/ ShowCaption
  \/ HandleException
  \/ GC_Preprocess
  \/ GC_Generate
  \/ AppRun
  \/ Upload
  \/ ClickButton
  \/ Rerun
  \/ ReceiveRequest
  \/ ApiFiles
  \/ ApiCallGenerate
  \/ ApiReturn
  \/ ApiJsonify
  \/ ApiRaise
  \/ DirectCall
  \/ DirectReturn
  \/ Restart

Spec == Init /\ [][Next]_vars

TypeOK ==
  /\ mode \in {"streamlit", "flask", "import"}
  /\ phase \in {"Idle", "Preprocessing", "Generating", "Done", "Failed"}
  /\ loads \in 0..MaxLoads
  /\ features \in {"unset", "logits", "raised"}

\* ================================================================ claims
ApiPcs ==
  {"serving", "api_files", "api_generate", "api_in_generate", "api_jsonify",
   "api_raise"}

Errors == {"DecodeError", "InferenceError"}

\* C1: a POST /caption request whose 'image' field is missing, or whose
\* generate_caption call raised, is answered with a 4xx/5xx status, and the
\* server goes on serving: once the models are loaded the process never
\* exits because of a request.
C1_ApiFailureAnswered ==
  mode = "flask" =>
    /\ pc = "exited" => loads = 0
    /\ response.cause # "none" =>
         /\ response.status \in 400..599
         /\ pc \in ApiPcs

\* A request failed with 500 and the next request has been accepted.
C1_Witness ==
  /\ mode = "flask"
  /\ response.status = 500
  /\ response.cause \in Errors
  /\ pc = "api_files"

\* The click handler's try block ended in an exception of extract_features or
\* generate_caption.
HandlerFailed ==
  /\ mode = "streamlit"
  /\ clicked
  /\ \/ features = "raised"
     \/ features = "logits" /\ phase = "Idle" /\ result.tag \in Errors

\* C2: in the UI, an exception of extract_features or generate_caption after
\* the click is caught and rendered as an inline error; the script run goes
\* on to its end with the upload control and the button rendered and the
\* uploaded file kept.
C2_HandlerErrorInline ==
  HandlerFailed =>
    /\ pc \in {"except", "apprun", "idle"}
    /\ pc \in {"apprun", "idle"} =>
         /\ display.kind = "error"
         /\ display.cause \in Errors
         /\ {"uploader", "button"} \subseteq rendered
         /\ widgetFile = uploaded_image.img

\* After an inline error, a later click in the same session reached the
\* displayed caption.
C2_Witness ==
  /\ mode = "streamlit"
  /\ sessionErrors
  /\ clicked
  /\ display.kind = "caption"

\* C3 (as claimed): at both entry points a decode failure is caught at the
\* call boundary of the entry point itself: by the route for POST /caption,
\* by the click handler (as an inline error) for the UI.
C3_DecodeErrorCaughtAtBoundary ==
  /\ response.cause = "DecodeError" => response.handledBy = "route"
  /\ display.cause = "DecodeError" => display.kind = "error"

\* C4 (as claimed): the model bindings are loaded once per process.
C4_LoadedOnce == loads <= 1

CurrentEntry ==
  CASE mode = "streamlit" -> "ui"
    [] mode = "flask" -> "api"
    [] OTHER -> "direct"

\* C6: for the same image, the outcome of generate_caption in the UI path
\* (after the preview and extract_features have read the upload) equals its
\* outcome in the HTTP path, and the UI shows that caption uppercased.
C6_SameCaptionBothPaths ==
  /\ (/\ phase \in {"Done", "Failed"}
      /\ result.tag \in {"caption", "DecodeError"}
      /\ remembered.entry \in {"ui", "api"}
      /\ CurrentEntry \in {"ui", "api"} \ {remembered.entry}
      /\ remembered.img = call.stream.img)
       => /\ result.tag = remembered.result.tag
          /\ result.text = remembered.result.text
  /\ (/\ display.kind = "caption"
      /\ remembered.entry = "api"
      /\ remembered.img = uploaded_image.img)
       => /\ remembered.result.tag = "caption"
          /\ display.text = Upper(remembered.result.text)

\* The UI shows a caption for an image the HTTP endpoint captioned earlier.
C6_Witness ==
  /\ display.kind = "caption"
  /\ remembered.entry = "api"
  /\ remembered.img = uploaded_image.img
  /\ Len(display.text) > 0

SameCall ==
  /\ remembered.img = call.stream.img
  /\ remembered.max_length = call.max_length
  /\ remembered.num_beams = call.num_beams

AllEndBy(c, nb, k) == \A b \in 1..nb : EosStep(c, b) \in 1..k

\* C8: generation returns at most max_length new tokens after at most
\* max_length steps, whatever num_beams, and stops as soon as every beam has
\* emitted its end token.
C8_BoundedGeneration ==
  phase = "Done" =>
    /\ Len(result.ids) <= call.max_length
    /\ result.steps <= call.max_length
    /\ \A k \in 1..call.max_length :
         AllEndBy(call.stream.img.content, call.num_beams, k)
           => result.steps <= k

\* No beam produced an end token: generation stopped at the budget.
C8_Witness ==
  /\ phase = "Done"
  /\ result.steps = call.max_length
  /\ Len(result.ids) = call.max_length
  /\ ~Finished(result.ids)
  /\ call.num_beams > 1

\* C9: in the UI, generate_caption starts (and a caption is shown) only after
\* extract_features has returned, and when extract_features raised,
\* generate_caption is not run and no caption is shown.
C9_ExtractThenGenerate ==
  mode = "streamlit" =>
    /\ (\/ pc \in {"generate", "in_generate", "show"}
        \/ phase # "Idle"
        \/ display.kind = "caption") => features = "logits"
    /\ features = "raised" =>
         /\ pc \in {"except", "apprun", "idle"}
         /\ phase = "Idle"
         /\ result = NoResult
         /\ display.kind # "caption"

\* extract_features raised and the run ended with the error message only.
C9_Witness ==
  /\ mode = "streamlit"
  /\ features = "raised"
  /\ pc = "idle"
  /\ display.kind = "error"

PhaseStep ==
  \/ phase' = phase /\ (phase \in {"Done", "Failed"} => result' = result)
  \/ phase = "Idle" /\ phase' = "Preprocessing"
  \/ phase = "Preprocessing" /\ phase' = "Generating" /\ OpenRGB(call.stream).ok
  \/ phase = "Preprocessing" /\ phase' = "Failed"
  \/ phase = "Generating" /\ phase' \in {"Done", "Failed"}
  \/ phase \in {"Done", "Failed"} /\ phase' = "Idle"

====
